---------------------------- MODULE Spec2Model ----------------------------
(***************************************************************************)
(* A model of the quantflow stochastic-process layer: PoissonProcess,      *)
(* SkellamProcess, DoubleIndependentPoisson (sp/poisson.py), WeinerProcess *)
(* (sp/weiner.py) and the Paths container (utils/paths.py).                *)
(*                                                                         *)
(* A run is a single-threaded caller: it constructs one receiver object,   *)
(* then makes calls on it one at a time; `last` records the call that has  *)
(* just returned (its arguments and its return value or exception) and     *)
(* `evaluated` the arguments at which that call evaluated the marginal's   *)
(* characteristic function, in order.  `frame` holds the locals of a call  *)
(* of PoissonProcess.arrivals that is followed iteration by iteration.     *)
(*                                                                         *)
(* Floating-point numbers are modelled as exact rationals <<num, den>>;    *)
(* np.exp is modelled by its power series truncated after ExpTerms terms   *)
(* (exact at 0); the random draws of a sampling routine are inputs of the  *)
(* action that models it.                                                  *)
(***************************************************************************)
EXTENDS Integers, Sequences, FiniteSets, TLC

VARIABLES obj, last, evaluated, frame

vars == <<obj, last, evaluated, frame>>

(***************************************************************************)
(* Bounds of the model.                                                    *)
(***************************************************************************)
MaxRate == 1        \* rates are drawn from -1..MaxRate
MaxSigma == 1       \* volatilities are drawn from -1..MaxSigma
MaxT == 2           \* time horizons are drawn from 0..MaxT
MaxSteps == 2       \* grid steps are drawn from 0..MaxSteps
MaxN == 2           \* number of sample paths (columns) 1..MaxN
MaxGap == 2         \* exponential inter-arrival gaps are drawn from 1..MaxGap
MaxK == 2           \* counts n are drawn from -1..MaxK
ExpTerms == 2       \* terms of the power series of exp after the constant

Rates == -1..MaxRate
Sigmas == -1..MaxSigma
Horizons == 0..MaxT
Counts == -1..MaxK
Freqs == {-1, 0, 1}
DrawVals == {-1, 1}

DefaultMaxFrequency == 20       \* Marginal1D.max_frequency()
CallOptionMaxFrequency == 10    \* default max_frequency of call_option
MaxFrequencies == {-1, 0, 5}    \* explicit and overriding maximum frequencies
MaxSamples == 3     \* sample counts N are drawn from 1..MaxSamples
MaxLen == 2         \* coordinate arrays hold 0..MaxLen coordinates
Coordinates == {0, 2}
MaxOrders == 1      \* orders are placed while the blotter holds fewer
MaxMessages == 1    \* diagnostics are logged while the logger holds fewer
AllcloseAtolInverse == 100000000    \* 1 / atol of np.allclose (atol = 1e-8)
TinyPriceInverse == 1000000000      \* 1 / the price 1e-9, a price near zero

(***************************************************************************)
(* Exact rational arithmetic (the model of float arithmetic).              *)
(***************************************************************************)
Abs(x) == IF x < 0 THEN -x ELSE x

RECURSIVE GCD(_, _)
GCD(a, b) == IF b = 0 THEN a ELSE GCD(b, a % b)

Rat(n, d) ==
    LET s == IF d < 0 THEN -1 ELSE 1
        g == GCD(Abs(n), Abs(d))
    IN  <<(s * n) \div g, (s * d) \div g>>

RInt(n) == <<n, 1>>
RZero == RInt(0)
ROne == RInt(1)

RAdd(a, b) ==
    LET g == GCD(a[2], b[2])
    IN  Rat(a[1] * (b[2] \div g) + b[1] * (a[2] \div g), (a[2] \div g) * b[2])

RNeg(a) == <<-a[1], a[2]>>
RSub(a, b) == RAdd(a, RNeg(b))

RMul(a, b) ==
    LET x == Rat(a[1], b[2])
        y == Rat(b[1], a[2])
    IN  <<x[1] * y[1], x[2] * y[2]>>

RLess(a, b) == a[1] * b[2] < b[1] * a[2]

(***************************************************************************)
(* Complex numbers (re + i*im) / den with integer re, im and den > 0, and  *)
(* np.exp as a truncated power series.                                     *)
(***************************************************************************)
Cx(re, im, den) == [re |-> re, im |-> im, den |-> den]

CNorm(a) ==
    LET g == GCD(GCD(Abs(a.re), Abs(a.im)), a.den)
    IN  Cx(a.re \div g, a.im \div g, a.den \div g)

CInt(n) == Cx(n, 0, 1)
COne == CInt(1)
Im == Cx(0, 1, 1)

CAdd(a, b) == Cx(a.re * b.den + b.re * a.den, a.im * b.den + b.im * a.den,
                 a.den * b.den)
CSub(a, b) == Cx(a.re * b.den - b.re * a.den, a.im * b.den - b.im * a.den,
                 a.den * b.den)
CMul(a, b) == Cx(a.re * b.re - a.im * b.im, a.re * b.im + a.im * b.re,
                 a.den * b.den)
CDiv(a, k) == Cx(a.re, a.im, a.den * k)

\* The bound names are bound by value ({e(v) : v \in {x}} evaluates x first),
\* as Python evaluates an argument before the call.
RECURSIVE ExpSeries(_, _, _, _)
ExpSeries(z, k, term, acc) ==
    IF k > ExpTerms THEN acc
    ELSE CHOOSE r \in {ExpSeries(z, k + 1, next, CNorm(CAdd(acc, next))) :
                           next \in {CNorm(CDiv(CMul(term, z), k))}} : TRUE

np_exp(z) == CHOOSE r \in {ExpSeries(v, 1, COne, COne) : v \in {CNorm(z)}} : TRUE

(***************************************************************************)
(* Values a call can return.                                               *)
(***************************************************************************)
NoObj == [kind |-> "none"]
NoCall == [op |-> "none"]
NoFrame == [kind |-> "none"]
Raise(exc) == [kind |-> "raise", exc |-> exc]
Call(op, args, ret) == [op |-> op, args |-> args, ret |-> ret]
IsRaise(v) == v.kind = "raise"

(***************************************************************************)
(* Construction.  Param (utils/param.py) validates its value against its   *)
(* bounds; pydantic validates WeinerProcess.sigma against ge=0.            *)
(***************************************************************************)
Param(name, value, lower) ==
    IF value >= lower
    THEN [kind |-> "Param", name |-> name, value |-> value, lower |-> lower]
    ELSE Raise("ValidationError")

PoissonProcess_init(rate) ==
    LET p == Param("lambda", rate, 0)
    IN  IF IsRaise(p) THEN p ELSE [kind |-> "PoissonProcess", rate |-> p]

SkellamProcess_init(rate_left, rate_right) ==
    [kind |-> "SkellamProcess", rate_left |-> rate_left, rate_right |-> rate_right]

DoubleIndependentPoisson_init(rate_left, rate_right) ==
    [kind |-> "DoubleIndependentPoisson",
     rate_left |-> rate_left, rate_right |-> rate_right]

WeinerProcess_init(sigma) ==
    IF sigma >= 0 THEN [kind |-> "WeinerProcess", sigma |-> sigma]
    ELSE Raise("ValidationError")

\* No receiver has been constructed and no call is outstanding.
Fresh == obj = NoObj /\ last = NoCall

\* The constructor call returns: on success the receiver is bound to obj.
Constructed(cls, args, made) ==
    /\ obj' = IF IsRaise(made) THEN obj ELSE made
    /\ last' = Call("__init__", [cls |-> cls, a |-> args], made)
    /\ evaluated' = <<>>
    /\ frame' = frame

NewPoisson ==
    /\ Fresh
    /\ \E rate \in Rates :
        Constructed("PoissonProcess", <<rate>>, PoissonProcess_init(rate))

NewSkellam ==
    /\ Fresh
    /\ \E l \in Rates, r \in Rates :
        Constructed("SkellamProcess", <<l, r>>, SkellamProcess_init(l, r))

NewDoubleIndependentPoisson ==
    /\ Fresh
    /\ \E l \in Rates, r \in Rates :
        Constructed("DoubleIndependentPoisson", <<l, r>>,
                  DoubleIndependentPoisson_init(l, r))

NewWeiner ==
    /\ Fresh
    /\ \E sigma \in Sigmas :
        Constructed("WeinerProcess", <<sigma>>, WeinerProcess_init(sigma))

\* The caller is done with the value returned and is ready for the next call.
Return ==
    /\ last # NoCall
    /\ last' = NoCall
    /\ obj' = obj
    /\ evaluated' = <<>>
    /\ frame' = frame

\* The receiver is of class `kind` and no call is outstanding.
Ready(kind) == obj.kind = kind /\ last = NoCall /\ frame = NoFrame

\* The call returns (or raises); it leaves the receiver as it is.
Returns(op, args, ret) ==
    /\ last' = Call(op, args, ret)
    /\ obj' = obj
    /\ evaluated' = <<>>
    /\ frame' = frame

\* A method yields the receiver as it leaves it and the value it returns.
Effect(self, ret) == [self |-> self, ret |-> ret]

\* The method returns (or raises) and leaves the receiver as `out.self`.
Mutates(op, args, out) ==
    /\ last' = Call(op, args, out.ret)
    /\ obj' = out.self
    /\ evaluated' = <<>>
    /\ frame' = frame

(***************************************************************************)
(* Characteristic functions.                                               *)
(***************************************************************************)
\* A slip: the compensating -1 of the exponent is left out.
Poisson_characteristic_exponent_NoCompensator(self, u) ==
    CMul(CInt(self.rate.value), np_exp(CMul(Im, CInt(u))))

Poisson_characteristic_exponent(self, u) ==
    CMul(CInt(self.rate.value), CSub(np_exp(CMul(Im, CInt(u))), COne))

Poisson_characteristic(self, t, u) ==
    np_exp(CMul(CInt(t), Poisson_characteristic_exponent(self, u)))

Weiner_characteristic(self, t, u) ==
    LET su == self.sigma * u
    IN  np_exp(CMul(Cx(-1, 0, 2), CInt(su * su * t)))

PoissonCharacteristic ==
    /\ Ready("PoissonProcess")
    /\ \E t \in Horizons, u \in Freqs :
        Returns("characteristic", [t |-> t, u |-> u],
               [kind |-> "complex", v |-> Poisson_characteristic(obj, t, u)])

WeinerCharacteristic ==
    /\ Ready("WeinerProcess")
    /\ \E t \in Horizons, u \in Freqs :
        Returns("characteristic", [t |-> t, u |-> u],
               [kind |-> "complex", v |-> Weiner_characteristic(obj, t, u)])

(***************************************************************************)
(* scipy.stats.poisson.  A probability is c * e^(-e) with c rational and e *)
(* an integer (the Poisson mean), or nan; a logarithm is ln(c) - e, or one *)
(* of +inf, -inf, nan.                                                     *)
(***************************************************************************)
Num(c, e) == [tag |-> "num", c |-> c, e |-> IF c = RZero THEN 0 ELSE e]
NaN == [tag |-> "nan", c |-> RZero, e |-> 0]
Inf == [tag |-> "inf", c |-> RZero, e |-> 0]
FZero == Num(RZero, 0)

LFin(c, e) == [tag |-> "fin", c |-> c, e |-> e]
LPosInf == [tag |-> "pinf", c |-> ROne, e |-> 0]
LNegInf == [tag |-> "ninf", c |-> ROne, e |-> 0]
LNaN == [tag |-> "nan", c |-> ROne, e |-> 0]

RECURSIVE Factorial(_)
Factorial(k) == IF k <= 0 THEN 1 ELSE k * Factorial(k - 1)

RECURSIVE Power(_, _)
Power(b, k) == IF k <= 0 THEN 1 ELSE b * Power(b, k - 1)

\* special.xlogy(k, mu) = k * log(mu), and 0 when k = 0
xlogy(k, mu) ==
    IF k = 0 THEN LFin(ROne, 0)
    ELSE IF mu < 0 THEN LNaN
    ELSE IF mu = 0 THEN (IF k > 0 THEN LNegInf ELSE LPosInf)
    ELSE IF k > 0 THEN LFin(RInt(Power(mu, k)), 0)
    ELSE LFin(Rat(1, Power(mu, -k)), 0)

\* special.gammaln(x) at an integer x: +inf at the poles x <= 0
gammaln(x) == IF x <= 0 THEN LPosInf ELSE LFin(RInt(Factorial(x - 1)), 0)

\* a - b on logarithms (IEEE: inf - inf = nan)
LSub(a, b) ==
    IF a.tag = "nan" \/ b.tag = "nan" THEN LNaN
    ELSE IF a.tag = "fin" /\ b.tag = "fin"
         THEN LFin(RMul(a.c, <<b.c[2], b.c[1]>>), a.e - b.e)
    ELSE IF a.tag = "fin" THEN (IF b.tag = "pinf" THEN LNegInf ELSE LPosInf)
    ELSE IF b.tag = a.tag THEN LNaN
    ELSE a

\* the real number mu as a logarithm value
LReal(mu) == LFin(ROne, -mu)

\* np.exp of a logarithm value
exp(x) ==
    CASE x.tag = "nan" -> NaN
      [] x.tag = "pinf" -> Inf
      [] x.tag = "ninf" -> FZero
      [] OTHER -> Num(x.c, x.e)

\* a * b and a - b on probabilities (nan propagates); a - b is only taken
\* between values of one distribution, which share the exponent
FMul(a, b) ==
    IF a.tag = "nan" \/ b.tag = "nan" THEN NaN
    ELSE IF a.tag = "inf" \/ b.tag = "inf"
         THEN (IF a = FZero \/ b = FZero THEN NaN ELSE Inf)
    ELSE Num(RMul(a.c, b.c), a.e + b.e)

FSub(a, b) ==
    IF a.tag # "num" \/ b.tag # "num" THEN NaN
    ELSE Num(RSub(a.c, b.c), IF a.c = RZero THEN b.e ELSE a.e)

\* IEEE ==: nan equals nothing
FEq(a, b) == a.tag # "nan" /\ b.tag # "nan" /\ a = b

\* poisson._pmf: exp(xlogy(k, mu) - gammaln(k + 1) - mu), no argument check
poisson__pmf(k, mu) ==
    exp(LSub(LSub(xlogy(k, mu), gammaln(k + 1)), LReal(mu)))

\* poisson.pmf: nan for an invalid mean, 0 outside the support
poisson_pmf(k, mu) ==
    IF mu < 0 THEN NaN
    ELSE IF k < 0 THEN FZero
    ELSE poisson__pmf(k, mu)

\* special.pdtr(k, mu), the sum of the first k + 1 Poisson terms
RECURSIVE pdtr(_, _)
pdtr(k, mu) ==
    IF k < 0 THEN RZero
    ELSE RAdd(pdtr(k - 1, mu), Rat(Power(mu, k), Factorial(k)))

\* poisson.cdf: nan for an invalid mean, 0 below the support
poisson_cdf(k, mu) ==
    IF mu < 0 THEN NaN
    ELSE IF k < 0 THEN FZero
    ELSE Num(pdtr(k, mu), mu)

(***************************************************************************)
(* Counting processes: densities and derived processes.                    *)
(***************************************************************************)
Poisson_pdf(self, t, n) == poisson_pmf(n, t * self.rate.value)

\* A slip: the mean of the count is taken to be the rate, not t * rate.
Poisson_cdf_IgnoresHorizon(self, t, n) == poisson_cdf(n, self.rate.value)

Poisson_cdf(self, t, n) == poisson_cdf(n, t * self.rate.value)

\* Marginal1D.pdf, the default: the first difference of cdf
Marginal1D_pdf(self, t, n) ==
    FSub(Poisson_cdf(self, t, n), Poisson_cdf(self, t, n - 1))

DoubleIndependentPoisson_pdf(self, t, n) ==
    FMul(poisson__pmf(n[1], t * self.rate_left),
         poisson__pmf(n[2], t * self.rate_right))

DoubleIndependentPoisson_marginals(self) ==
    <<PoissonProcess_init(self.rate_left), PoissonProcess_init(self.rate_right)>>

DoubleIndependentPoisson_sum_process(self) ==
    PoissonProcess_init(self.rate_left + self.rate_right)

\* A slip: the left rate is made the running sum before the process is built.
DoubleIndependentPoisson_sum_process_method_Accumulates(self) ==
    Effect([self EXCEPT !.rate_left = self.rate_left + self.rate_right],
           DoubleIndependentPoisson_sum_process(self))

\* sum_process() as a method: it reads the two rates and assigns to nothing
DoubleIndependentPoisson_sum_process_method(self) ==
    Effect(self, DoubleIndependentPoisson_sum_process(self))

DoubleIndependentPoisson_difference_process(self) ==
    SkellamProcess_init(self.rate_left, self.rate_right)

\* A slip: a buffer of zeros is handed back in place of the error.
Skellam_sample_ReturnsZeros(self, n, t, steps) ==
    [kind |-> "ndarray",
     data |-> [r \in 1..(steps + 1) |-> [c \in 1..n |-> RZero]]]

Skellam_sample(self, n, t, steps) == Raise("NotImplementedError")

DoubleIndependentPoisson_sample(self, n, t, steps) == Raise("NotImplementedError")

Float(v) == [kind |-> "float", v |-> v]

PoissonPdf ==
    /\ Ready("PoissonProcess")
    /\ \E t \in Horizons, n \in Counts :
        Returns("pdf", [t |-> t, n |-> n],
               Float(Poisson_pdf(obj, t, n)))

PoissonCdf ==
    /\ Ready("PoissonProcess")
    /\ \E t \in Horizons, n \in Counts :
        Returns("cdf", [t |-> t, n |-> n],
               Float(Poisson_cdf(obj, t, n)))

PoissonPdfFromCdf ==
    /\ Ready("PoissonProcess")
    /\ \E t \in Horizons, n \in Counts :
        Returns("Marginal1D.pdf", [t |-> t, n |-> n],
               Float(Marginal1D_pdf(obj, t, n)))

DoubleIndependentPoissonPdf ==
    /\ Ready("DoubleIndependentPoisson")
    /\ \E t \in Horizons, n1 \in Counts, n2 \in Counts :
        Returns("pdf", [t |-> t, n |-> <<n1, n2>>],
               Float(DoubleIndependentPoisson_pdf(obj, t, <<n1, n2>>)))

DoubleIndependentPoissonSumProcess ==
    /\ Ready("DoubleIndependentPoisson")
    /\ Mutates("sum_process", <<>>,
           DoubleIndependentPoisson_sum_process_method(obj))

DoubleIndependentPoissonDifferenceProcess ==
    /\ Ready("DoubleIndependentPoisson")
    /\ Returns("difference_process", <<>>,
           DoubleIndependentPoisson_difference_process(obj))

SkellamSample ==
    /\ Ready("SkellamProcess")
    /\ \E n \in 1..MaxN, t \in Horizons, steps \in 0..MaxSteps :
        Returns("sample", [n |-> n, t |-> t, steps |-> steps],
               Skellam_sample(obj, n, t, steps))

DoubleIndependentPoissonSample ==
    /\ Ready("DoubleIndependentPoisson")
    /\ \E n \in 1..MaxN, t \in Horizons, steps \in 0..MaxSteps :
        Returns("sample",
               [n |-> n, t |-> t, steps |-> steps],
               DoubleIndependentPoisson_sample(obj, n, t, steps))

(***************************************************************************)
(* Paths: a time horizon t and a buffer of steps + 1 rows and `samples`    *)
(* columns, held as a sequence of rows of rationals.                       *)
(***************************************************************************)
Matrices(rows, cols) == [1..rows -> [1..cols -> {RInt(v) : v \in DrawVals}]]

np_zeros(rows, cols) == [r \in 1..rows |-> [c \in 1..cols |-> RZero]]

\* np.cumsum(m, axis=0)
RECURSIVE ColumnSum(_, _, _)
ColumnSum(m, r, c) ==
    IF r = 0 THEN RZero ELSE RAdd(ColumnSum(m, r - 1, c), m[r][c])

np_cumsum(m) ==
    [r \in 1..Len(m) |-> [c \in 1..Len(m[1]) |-> ColumnSum(m, r, c)]]

Paths_init(t, data) == [kind |-> "Paths", t |-> t, data |-> data]

Paths_samples(self) == Len(self.data[1])

Paths_steps(self) == Len(self.data) - 1

Paths_dt(self) ==
    IF Paths_steps(self) = 0 THEN Raise("ZeroDivisionError")
    ELSE Float(Rat(self.t, Paths_steps(self)))

\* scipy.integrate.cumtrapz(y, dx=dx, axis=0, initial=0):
\* the running sum of dx * (y[1:] + y[:-1]) / 2, after a first row `initial`
cumtrapz(y, dx) ==
    LET d == [r \in 1..(Len(y) - 1) |-> [c \in 1..Len(y[1]) |->
                 RMul(RMul(dx, RAdd(y[r + 1][c], y[r][c])), Rat(1, 2))]]
    IN  <<[c \in 1..Len(y[1]) |-> RZero]>> \o np_cumsum(d)

\* A slip: dx=self.dt is left out, so cumtrapz integrates with unit spacing.
Paths_integrate_UnitSpacing(self) ==
    Paths_init(self.t, cumtrapz(self.data, ROne))

Paths_integrate(self) ==
    LET dt == Paths_dt(self)
    IN  IF IsRaise(dt) THEN dt
        ELSE Paths_init(self.t, cumtrapz(self.data, dt.v))

\* A slip: the integral is written into the buffer of self, which is returned.
Paths_integrate_method_InPlace(self) ==
    LET r == Paths_integrate(self)
    IN  Effect(IF IsRaise(r) THEN self ELSE r, r)

\* integrate() as a method: it reads self.t, self.data and self.dt, assigns to
\* nothing of self and returns a Paths constructed by self.__class__(...)
Paths_integrate_method(self) == Effect(self, Paths_integrate(self))

\* Paths.normal_draws(n, time_horizon, time_steps): time_steps + 1 rows of
\* n standard-normal draws
Paths_normal_draws(n, time_horizon, time_steps, drawn) ==
    Paths_init(time_horizon, drawn)

NewPaths ==
    /\ Fresh
    /\ \E t \in Horizons, rows \in 1..(MaxSteps + 1), n \in 1..MaxN :
       \E data \in Matrices(rows, n) :
            Constructed("Paths", <<t, rows, n>>, Paths_init(t, data))

PathsDt == /\ Ready("Paths")
 /\ Returns("dt", <<>>, Paths_dt(obj))

PathsIntegrate == /\ Ready("Paths")
 /\ Mutates("integrate", <<>>, Paths_integrate_method(obj))

(***************************************************************************)
(* WeinerProcess sampling.                                                 *)
(***************************************************************************)
Weiner_sample_from_draws(self, draws) ==
    LET dt == Paths_dt(draws)
        rows == Len(draws.data)
        cols == Len(draws.data[1])
    IN  IF IsRaise(dt) THEN dt
        ELSE Paths_init(draws.t,
                 <<np_zeros(rows, cols)[1]>>
                     \o np_cumsum(SubSeq(draws.data, 1, rows - 1)))

Weiner_sample(self, n, time_horizon, time_steps, drawn) ==
    Weiner_sample_from_draws(self,
        Paths_normal_draws(n, time_horizon, time_steps, drawn))

WeinerSample ==
    /\ Ready("WeinerProcess")
    /\ \E n \in 1..MaxN, t \in Horizons, steps \in 0..MaxSteps :
       \E drawn \in Matrices(steps + 1, n) :
            Returns("sample",
                   [n |-> n, t |-> t, steps |-> steps, drawn |-> drawn],
                   Weiner_sample(obj, n, t, steps, drawn))

WeinerSampleFromDraws ==
    /\ Ready("WeinerProcess")
    /\ \E t \in Horizons, rows \in 1..(MaxSteps + 1), n \in 1..MaxN :
       \E data \in Matrices(rows, n) :
            Returns("sample_from_draws",
                   [draws |-> Paths_init(t, data)],
                   Weiner_sample_from_draws(obj, Paths_init(t, data)))

(***************************************************************************)
(* PoissonProcess sampling.  The exponential gaps drawn by arrivals are an *)
(* input: exactly the draws the loop consumes, the last one being the      *)
(* first to carry the running time past t.                                 *)
(***************************************************************************)
RECURSIVE SumTo(_, _)
SumTo(g, j) == IF j = 0 THEN 0 ELSE SumTo(g, j - 1) + g[j]

GapSeqs(t) ==
    UNION {{g \in [1..len -> 1..MaxGap] :
                SumTo(g, len - 1) <= t /\ SumTo(g, len) > t} : len \in 1..(t + 1)}

\* CountingProcess.sample_dt(t, steps): the grid size and its spacing
sample_dt(t, steps) == <<steps, Rat(t, steps)>>

RECURSIVE ArrivalsLoop(_, _, _, _, _)
ArrivalsLoop(t, gaps, j, tt, arrivals) ==
    IF tt <= t
    THEN ArrivalsLoop(t, gaps, j + 1, tt + gaps[j], Append(arrivals, tt))
    ELSE arrivals

\* A slip: the running time that ended the loop is recorded as well.
Poisson_arrivals_PastHorizon(self, t, gaps) ==
    IF self.rate.value = 0 THEN Raise("ZeroDivisionError")
    ELSE [kind |-> "list",
          v |-> Append(ArrivalsLoop(t, gaps, 1, 0, <<>>),
                       SumTo(gaps, Len(gaps)))]

Poisson_arrivals(self, t, gaps) ==
    IF self.rate.value = 0 THEN Raise("ZeroDivisionError")
    ELSE [kind |-> "list", v |-> ArrivalsLoop(t, gaps, 1, 0, <<>>)]

Poisson_jumps(self, n) == [j \in 1..n |-> ROne]

\* the body of `for p in range(n)` for one column: rows are indexed 0..size
RECURSIVE FillLoop(_, _, _, _, _, _, _, _)
FillLoop(col, size, dt, arrivals, jumps, j, i, y) ==
    IF j > Len(arrivals)
    THEN [kind |-> "column",
          v |-> [k \in 0..size |-> IF k >= i THEN y ELSE col[k]]]
    ELSE IF RLess(RMul(RInt(i), dt), RInt(arrivals[j]))
         THEN IF i > size THEN Raise("IndexError")
              ELSE FillLoop([col EXCEPT ![i] = y], size, dt, arrivals, jumps,
                            j, i + 1, y)
         ELSE FillLoop(col, size, dt, arrivals, jumps, j + 1, i,
                       RAdd(y, jumps[j]))

Poisson_sample_path(self, size, dt, t, gaps) ==
    LET arrivals == Poisson_arrivals(self, t, gaps)
        zeros == [k \in 0..size |-> RZero]
    IN  IF IsRaise(arrivals) THEN arrivals
        ELSE IF arrivals.v = <<>> THEN [kind |-> "column", v |-> zeros]
        ELSE FillLoop(zeros, size, dt, arrivals.v,
                      Poisson_jumps(self, Len(arrivals.v)), 1, 1, RZero)

Poisson_sample(self, n, t, steps, gaps) ==
    LET size == sample_dt(t, steps)[1]
        dt == sample_dt(t, steps)[2]
        cols == [p \in 1..n |-> Poisson_sample_path(self, size, dt, t, gaps[p])]
    IN  IF \E p \in 1..n : IsRaise(cols[p])
        THEN cols[CHOOSE p \in 1..n : IsRaise(cols[p]) /\
                      \A q \in 1..(p - 1) : ~IsRaise(cols[q])]
        ELSE [kind |-> "ndarray",
              data |-> [r \in 1..(size + 1) |-> [p \in 1..n |-> cols[p].v[r - 1]]]]

PoissonArrivals ==
    /\ Ready("PoissonProcess")
    /\ \E t \in Horizons : \E gaps \in GapSeqs(t) :
        Returns("arrivals", [t |-> t, gaps |-> gaps],
               Poisson_arrivals(obj, t, gaps))

PoissonSample ==
    /\ Ready("PoissonProcess")
    /\ \E n \in 1..MaxN, t \in Horizons, steps \in 1..MaxSteps :
       \E gaps \in [1..n -> GapSeqs(t)] :
            Returns("sample",
                   [n |-> n, t |-> t, steps |-> steps, gaps |-> gaps],
                   Poisson_sample(obj, n, t, steps, gaps))

(***************************************************************************)
(* PoissonProcess.arrivals, one iteration of its loop at a time.  The      *)
(* frame holds t, tt, the list built so far and the gaps drawn so far.     *)
(***************************************************************************)
\* lines 100-102: exp_rate = 1.0 / self.rate.value, arrivals = [], tt = 0
Arrivals_enter(self, t) ==
    IF self.rate.value = 0 THEN Raise("ZeroDivisionError")
    ELSE [kind |-> "arrivals", t |-> t, tt |-> 0, arrivals |-> <<>>,
          gaps |-> <<>>]

\* line 103: while tt <= t
Arrivals_while(f) == f.tt <= f.t

\* A slip: the running time is recorded after the gap has been added to it.
Arrivals_iteration_AppendsAfterDraw(f, dt) ==
    [f EXCEPT !.arrivals = Append(@, f.tt + dt), !.tt = @ + dt,
              !.gaps = Append(@, dt)]

\* lines 104-106: arrivals.append(tt); dt = exponential(...); tt += dt
Arrivals_iteration(f, dt) ==
    [f EXCEPT !.arrivals = Append(@, f.tt), !.tt = @ + dt,
              !.gaps = Append(@, dt)]

ArrivalsEnter ==
    /\ Ready("PoissonProcess")
    /\ \E t \in Horizons :
         LET f == Arrivals_enter(obj, t)
         IN  /\ frame' = IF IsRaise(f) THEN NoFrame ELSE f
             /\ last' = IF IsRaise(f)
                        THEN Call("arrivals", [t |-> t, gaps |-> <<>>], f)
                        ELSE last
    /\ obj' = obj
    /\ evaluated' = <<>>

ArrivalsIterate ==
    /\ frame # NoFrame
    /\ Arrivals_while(frame)
    /\ \E dt \in 1..MaxGap : frame' = Arrivals_iteration(frame, dt)
    /\ UNCHANGED <<obj, last, evaluated>>

\* line 107: return arrivals
ArrivalsReturn ==
    /\ frame # NoFrame
    /\ ~Arrivals_while(frame)
    /\ last' = Call("arrivals", [t |-> frame.t, gaps |-> frame.gaps],
                    [kind |-> "list", v |-> frame.arrivals])
    /\ frame' = NoFrame
    /\ UNCHANGED <<obj, evaluated>>

(***************************************************************************)
(* The remaining evaluations of the counting processes.                    *)
(***************************************************************************)
\* Parameters(self.rate): the collection holding the Param of the process
Poisson_parameters(self) == [kind |-> "Parameters", v |-> <<self.rate>>]

\* -(rate ** k) * exp(-rate) / factorial(k), k = floor(n), as a 1-array
Poisson_cdf_jacobian(self, t, n) ==
    LET k == n
        rate == self.rate.value
    IN  [kind |-> "array",
         x |-> <<Num(Rat(-Power(rate, k), Factorial(k)), rate)>>]

\* a tuple of results: the first exception raised while building it leaves
Tuple(m) ==
    IF IsRaise(m[1]) THEN m[1]
    ELSE IF IsRaise(m[2]) THEN m[2]
    ELSE [kind |-> "tuple", v |-> m]

PoissonParameters ==
    /\ Ready("PoissonProcess")
    /\ Returns("parameters", <<>>, Poisson_parameters(obj))

PoissonCdfJacobian ==
    /\ Ready("PoissonProcess")
    /\ \E t \in Horizons, n \in 0..MaxK :
        Returns("cdf_jacobian", [t |-> t, n |-> n],
               Poisson_cdf_jacobian(obj, t, n))

PoissonCharacteristicExponent ==
    /\ Ready("PoissonProcess")
    /\ \E u \in Freqs :
        Returns("characteristic_exponent", [u |-> u],
               [kind |-> "complex",
                v |-> CNorm(Poisson_characteristic_exponent(obj, u))])

PoissonJumps ==
    /\ Ready("PoissonProcess")
    /\ \E n \in 0..MaxN :
        Returns("jumps", [n |-> n], [kind |-> "array", x |-> Poisson_jumps(obj, n)])

DoubleIndependentPoissonMarginals ==
    /\ Ready("DoubleIndependentPoisson")
    /\ Returns("marginals", <<>>, Tuple(DoubleIndependentPoisson_marginals(obj)))

(***************************************************************************)
(* Marginal1D: a marginal that implements characteristic only and inherits *)
(* every default of the base class; max_frequency may be overridden.       *)
(***************************************************************************)
None == [kind |-> "None"]

\* Marginal1D.max_frequency: 20 unless the subclass overrides it
Marginal1D_max_frequency(self) ==
    IF self.max_frequency = None THEN Float(RInt(DefaultMaxFrequency))
    ELSE self.max_frequency

\* A slip: the base cdf hands back a default value in place of the error.
Marginal1D_cdf_ReturnsZero(self, n) == Float(FZero)

Marginal1D_cdf(self, n) == Raise("NotImplementedError")

Marginal1D_cdf_jacobian(self, n) == Raise("NotImplementedError")

\* self.cdf(n) - self.cdf(n - 1): the left operand is evaluated first and an
\* exception of either operand leaves the expression
Marginal1D_default_pdf(self, n) ==
    LET a == Marginal1D_cdf(self, n)
        b == Marginal1D_cdf(self, n - 1)
    IN  IF IsRaise(a) THEN a
        ELSE IF IsRaise(b) THEN b
        ELSE Float(FSub(a.v, b.v))

Marginal1D_pdf_jacobian(self, n) ==
    LET a == Marginal1D_cdf_jacobian(self, n)
        b == Marginal1D_cdf_jacobian(self, n - 1)
    IN  IF IsRaise(a) THEN a
        ELSE IF IsRaise(b) THEN b
        ELSE Float(FSub(a.v, b.v))

NewMarginal ==
    /\ Fresh
    /\ \E mf \in {None} \cup {Float(RInt(f)) : f \in MaxFrequencies} :
            Constructed("Marginal1D", <<mf>>,
                        [kind |-> "Marginal1D", max_frequency |-> mf])

MarginalCdf ==
    /\ Ready("Marginal1D")
    /\ \E n \in Counts : Returns("cdf", [n |-> n], Marginal1D_cdf(obj, n))

MarginalCdfJacobian ==
    /\ Ready("Marginal1D")
    /\ \E n \in Counts :
            Returns("cdf_jacobian", [n |-> n], Marginal1D_cdf_jacobian(obj, n))

MarginalPdf ==
    /\ Ready("Marginal1D")
    /\ \E n \in Counts :
            Returns("pdf", [n |-> n], Marginal1D_default_pdf(obj, n))

MarginalPdfJacobian ==
    /\ Ready("Marginal1D")
    /\ \E n \in Counts :
            Returns("pdf_jacobian", [n |-> n], Marginal1D_pdf_jacobian(obj, n))

(***************************************************************************)
(* The transform entry points of Marginal1D.  Transform and its result     *)
(* (utils/transforms.py) are opaque: a Transform is the record of the      *)
(* arguments it was constructed with, unless they are invalid, and its     *)
(* result the record of what it was called with.  An entry point yields    *)
(* the value it returns or raises together with the arguments at which it  *)
(* evaluated self.characteristic, in order.                                *)
(***************************************************************************)
NotPassed == [kind |-> "not passed"]
PyInt(n) == [kind |-> "int", v |-> n]
Array(x) == [kind |-> "array", x |-> x]

SampleCounts == {PyInt(n) : n \in 1..MaxSamples}
Arrays ==
    UNION {{Array(x) : x \in [1..len -> {RInt(v) : v \in Coordinates}]} :
               len \in 0..MaxLen}
Spacings == {None, Float(ROne)}
FrequencyArgs == {None} \cup {Float(RInt(f)) : f \in MaxFrequencies}

Outcome(ret, evals) == [ret |-> ret, evaluated |-> evals]

\* an argument of characteristic: the frequency grid or the origin, moved
\* along the imaginary axis by im
U(at, im) == [at |-> at, im |-> im]
Transform_frequency_domain(transform) == U("frequency_domain", RZero)
Alpha == Rat(1, 2)

\* the number of subintervals of a grid of n samples
Subintervals(n) == n - 1

Transform_init(n, max_frequency, domain_range, simpson_rule) ==
    IF ~RLess(RZero, max_frequency.v) THEN Raise("ConfigurationError")
    ELSE IF simpson_rule /\ n # None /\ Subintervals(n.v) % 2 = 1
         THEN Raise("ConfigurationError")
    ELSE [kind |-> "Transform", n |-> n, max_frequency |-> max_frequency,
          domain_range |-> domain_range, simpson_rule |-> simpson_rule]

Transform_call(transform, psi, delta_x) ==
    [kind |-> "TransformResult", transform |-> transform, psi |-> psi,
     delta_x |-> delta_x]

np_min(x) ==
    IF Len(x) = 0 THEN Raise("ValueError")
    ELSE Float(CHOOSE m \in {x[i] : i \in 1..Len(x)} :
                   \A i \in 1..Len(x) : ~RLess(x[i], m))

np_max(x) ==
    IF Len(x) = 0 THEN Raise("ValueError")
    ELSE Float(CHOOSE m \in {x[i] : i \in 1..Len(x)} :
                   \A i \in 1..Len(x) : ~RLess(m, x[i]))

Marginal1D_get_max_frequency(self, max_frequency) ==
    IF max_frequency # None THEN max_frequency
    ELSE Marginal1D_max_frequency(self)

Marginal1D_domain_range(self) == [kind |-> "Bounds"]

\* lines 90-92: the spacing of the coordinates x
InferredDeltaX(x) ==
    LET min_x == np_min(x)
        max_x == np_max(x)
    IN  IF IsRaise(min_x) THEN min_x
        ELSE IF Len(x) - 1 = 0 THEN Raise("ZeroDivisionError")
        ELSE Float(RMul(RSub(max_x.v, min_x.v), Rat(1, Len(x) - 1)))

Marginal1D_pdf_from_characteristic(self, n_or_x, max_frequency, delta_x, simpson_rule) ==
    LET n == IF n_or_x.kind = "int" THEN n_or_x ELSE None
        dx == IF n_or_x.kind = "array" /\ delta_x = None
              THEN InferredDeltaX(n_or_x.x)
              ELSE delta_x
        transform ==
            Transform_init(n, Marginal1D_get_max_frequency(self, max_frequency),
                           Marginal1D_domain_range(self), simpson_rule)
    IN  IF IsRaise(dx) THEN Outcome(dx, <<>>)
        ELSE IF IsRaise(transform) THEN Outcome(transform, <<>>)
        ELSE Outcome(Transform_call(transform, "psi", dx),
                     <<Transform_frequency_domain(transform)>>)

\* characteristic_corrected(u): characteristic(-1j), then characteristic(u)
Marginal1D_characteristic_corrected(self, u) == <<U("origin", RInt(-1)), u>>

\* call_option_transform(u): characteristic_corrected(u - 1j)
Marginal1D_call_option_transform(self, u) ==
    Marginal1D_characteristic_corrected(self, U(u.at, RSub(u.im, ROne)))

Marginal1D_call_option(self, N, max_frequency, delta_x, alpha, simpson_rule) ==
    LET mf == IF max_frequency = NotPassed
              THEN Float(RInt(CallOptionMaxFrequency))
              ELSE max_frequency
        t == Transform_init(N, Marginal1D_get_max_frequency(self, mf),
                            Marginal1D_domain_range(self), simpson_rule)
        fd == Transform_frequency_domain(t)
    IN  IF IsRaise(t) THEN Outcome(t, <<>>)
        ELSE Outcome([kind |-> "TransformResult", transform |-> t,
                      psi |-> "phi", delta_x |-> delta_x, alpha |-> alpha],
                     Marginal1D_call_option_transform(self,
                         U(fd.at, RSub(fd.im, alpha))))

\* characteristic_df(n, max_frequency), no further keyword arguments
Marginal1D_characteristic_df(self, n, max_frequency) ==
    LET transform ==
            Transform_init(n, Marginal1D_get_max_frequency(self, max_frequency),
                           None, FALSE)
    IN  IF IsRaise(transform) THEN Outcome(transform, <<>>)
        ELSE Outcome([kind |-> "DataFrame", transform |-> transform],
                     <<Transform_frequency_domain(transform)>>)

\* The entry point returns (or raises) after the evaluations of `out`.
Evaluates(op, args, out) ==
    /\ last' = Call(op, args, out.ret)
    /\ obj' = obj
    /\ evaluated' = out.evaluated
    /\ frame' = frame

MarginalPdfFromCharacteristic ==
    /\ Ready("Marginal1D")
    /\ \E n_or_x \in {None} \cup SampleCounts \cup Arrays,
          max_frequency \in FrequencyArgs, delta_x \in Spacings,
          simpson_rule \in BOOLEAN :
            Evaluates("pdf_from_characteristic",
                      [n_or_x |-> n_or_x, max_frequency |-> max_frequency,
                       delta_x |-> delta_x, simpson_rule |-> simpson_rule],
                      Marginal1D_pdf_from_characteristic(obj, n_or_x,
                          max_frequency, delta_x, simpson_rule))

MarginalCallOption ==
    /\ Ready("Marginal1D")
    /\ \E N \in SampleCounts, max_frequency \in {NotPassed} \cup FrequencyArgs,
          delta_x \in Spacings, simpson_rule \in BOOLEAN :
            Evaluates("call_option",
                      [n_or_x |-> N, max_frequency |-> max_frequency,
                       delta_x |-> delta_x, simpson_rule |-> simpson_rule],
                      Marginal1D_call_option(obj, N, max_frequency, delta_x,
                                             Alpha, simpson_rule))

MarginalCharacteristicDf ==
    /\ Ready("Marginal1D")
    /\ \E n \in {None} \cup SampleCounts, max_frequency \in FrequencyArgs :
            Evaluates("characteristic_df",
                      [n_or_x |-> n, max_frequency |-> max_frequency,
                       delta_x |-> None, simpson_rule |-> FALSE],
                      Marginal1D_characteristic_df(obj, n, max_frequency))

(***************************************************************************)
(* TradingAlgorithm (qa/trading/algorithm.py).  The blotter holds the      *)
(* orders placed, the logger the messages written to it, and the trading   *)
(* client, once a generator has been created, the last price of every sid. *)
(***************************************************************************)
Sids == {1}
Prices == {RZero, Rat(1, TinyPriceInverse), RInt(2)}
Values == {-1, 2}
OrderPrices == {None, Float(ROne)}

\* Blotter(): no orders yet
Blotter_init == [kind |-> "Blotter", orders |-> <<>>, transact |-> None]

\* Blotter.order(sid, amount, limit_price, stop_price): the order is booked
\* and its id returned
Blotter_order(blotter, sid, amount, limit_price, stop_price) ==
    [blotter |-> [blotter EXCEPT !.orders =
                     Append(@, [sid |-> sid, amount |-> amount,
                                limit |-> limit_price, stop |-> stop_price])],
     ret |-> [kind |-> "order_id", v |-> Len(blotter.orders) + 1]]

TradingAlgorithm_init ==
    [kind |-> "TradingAlgorithm", logger |-> None,
     slippage |-> "VolumeShareSlippage", commission |-> "PerShare",
     blotter |-> Blotter_init, initialized |-> FALSE, trading_client |-> None]

TradingAlgorithm_set_logger(self, logger) ==
    Effect([self EXCEPT !.logger = logger], None)

\* _create_generator: a new trading client, whose current data hold `prices`
\* when the algorithm is next handed data, and the transact method
TradingAlgorithm_create_generator(self, prices) ==
    Effect([self EXCEPT
               !.trading_client = [kind |-> "AlgorithmSimulator",
                                   current_data |-> prices],
               !.blotter.transact = [kind |-> "transact",
                                     slippage |-> self.slippage,
                                     commission |-> self.commission]],
           [kind |-> "generator"])

TradingAlgorithm_order(self, sid, amount, limit_price, stop_price) ==
    LET placed == Blotter_order(self.blotter, sid, amount, limit_price,
                                stop_price)
    IN  Effect([self EXCEPT !.blotter = placed.blotter], placed.ret)

\* np.allclose(a, 0): |a| <= atol, with the default atol of 1e-8
np_allclose_zero(a) == ~RLess(Rat(1, AllcloseAtolInverse), <<Abs(a[1]), a[2]>>)

TradingAlgorithm_order_value(self, sid, value, limit_price, stop_price) ==
    IF self.trading_client = None THEN Effect(self, Raise("AttributeError"))
    ELSE LET last_price == self.trading_client.current_data[sid]
         IN  IF np_allclose_zero(last_price)
             THEN IF self.logger = None
                  THEN Effect(self, Raise("AttributeError"))
                  ELSE Effect([self EXCEPT !.logger.messages =
                                  Append(@, [level |-> "debug", psid |-> sid])],
                              None)
             ELSE TradingAlgorithm_order(self, sid,
                      RMul(RInt(value), <<last_price[2], last_price[1]>>),
                      limit_price, stop_price)

\* The classes a model handed to a setter can be of, and for each the classes
\* it is an instance of (itself and its bases).
ModelClasses == {"FixedSlippage", "PerTrade", "NoneType"}

Bases(cls) ==
    IF cls \in {"VolumeShareSlippage", "FixedSlippage"}
    THEN {cls, "SlippageModel", "object"}
    ELSE {cls, "object"}

isinstance(cls, classes) == Bases(cls) \cap classes # {}

\* A subclass marks the algorithm as fully initialized.
TradingAlgorithm_initialized(self) ==
    Effect([self EXCEPT !.initialized = TRUE], None)

TradingAlgorithm_set_slippage_IgnoresInitialized(self, slippage) ==
    IF ~isinstance(slippage, {"SlippageModel"})
    THEN Effect(self, Raise("UnsupportedSlippageModel"))
    ELSE Effect([self EXCEPT !.slippage = slippage], None)

TradingAlgorithm_set_slippage(self, slippage) ==
    IF ~isinstance(slippage, {"SlippageModel"})
    THEN Effect(self, Raise("UnsupportedSlippageModel"))
    ELSE IF self.initialized
         THEN Effect(self, Raise("OverrideSlippagePostInit"))
         ELSE Effect([self EXCEPT !.slippage = slippage], None)

TradingAlgorithm_set_commission(self, commission) ==
    IF ~isinstance(commission, {"PerShare", "PerTrade", "PerDollar"})
    THEN Effect(self, Raise("UnsupportedCommissionModel"))
    ELSE IF self.initialized
         THEN Effect(self, Raise("OverrideCommissionPostInit"))
         ELSE Effect([self EXCEPT !.commission = commission], None)

NewTradingAlgorithm ==
    /\ Fresh
    /\ Constructed("TradingAlgorithm", <<>>, TradingAlgorithm_init)

SetLogger ==
    /\ Ready("TradingAlgorithm")
    /\ Mutates("set_logger", <<>>,
               TradingAlgorithm_set_logger(obj,
                   [kind |-> "Logger", messages |-> <<>>]))

CreateGenerator ==
    /\ Ready("TradingAlgorithm")
    /\ \E prices \in [Sids -> Prices] :
            Mutates("_create_generator", [prices |-> prices],
                   TradingAlgorithm_create_generator(obj, prices))

Order ==
    /\ Ready("TradingAlgorithm")
    /\ Len(obj.blotter.orders) < MaxOrders
    /\ \E sid \in Sids, amount \in Values :
            Mutates("order", [sid |-> sid, amount |-> amount],
                   TradingAlgorithm_order(obj, sid, RInt(amount), None, None))

OrderValue ==
    /\ Ready("TradingAlgorithm")
    /\ Len(obj.blotter.orders) < MaxOrders
    /\ obj.logger # None => Len(obj.logger.messages) < MaxMessages
    /\ \E sid \in Sids, value \in Values,
          limit_price \in OrderPrices, stop_price \in OrderPrices :
            Mutates("order_value",
                   [sid |-> sid, value |-> value,
                    limit_price |-> limit_price, stop_price |-> stop_price],
                   TradingAlgorithm_order_value(obj, sid, value, limit_price,
                                                stop_price))

Initialized ==
    /\ Ready("TradingAlgorithm")
    /\ ~obj.initialized
    /\ Mutates("initialized", <<>>, TradingAlgorithm_initialized(obj))

SetSlippage ==
    /\ Ready("TradingAlgorithm")
    /\ \E slippage \in ModelClasses :
            Mutates("set_slippage", [model |-> slippage],
                   TradingAlgorithm_set_slippage(obj, slippage))

SetCommission ==
    /\ Ready("TradingAlgorithm")
    /\ \E commission \in ModelClasses :
            Mutates("set_commission", [model |-> commission],
                   TradingAlgorithm_set_commission(obj, commission))

Init ==
    /\ obj = NoObj
    /\ last = NoCall
    /\ evaluated = <<>>
    /\ frame = NoFrame

Next ==
    \/ NewPoisson
    \/ NewSkellam
    \/ NewDoubleIndependentPoisson
    \/ NewWeiner
    \/ Return
    \/ PoissonCharacteristic
    \/ WeinerCharacteristic
    \/ PoissonPdf
    \/ PoissonCdf
    \/ PoissonPdfFromCdf
    \/ DoubleIndependentPoissonPdf
    \/ DoubleIndependentPoissonSumProcess
    \/ DoubleIndependentPoissonDifferenceProcess
    \/ SkellamSample
    \/ DoubleIndependentPoissonSample
    \/ NewPaths
    \/ PathsDt
    \/ PathsIntegrate
    \/ WeinerSample
    \/ WeinerSampleFromDraws
    \/ PoissonArrivals
    \/ PoissonSample
    \/ ArrivalsEnter
    \/ ArrivalsIterate
    \/ ArrivalsReturn
    \/ PoissonParameters
    \/ PoissonCdfJacobian
    \/ PoissonCharacteristicExponent
    \/ PoissonJumps
    \/ DoubleIndependentPoissonMarginals
    \/ NewMarginal
    \/ MarginalCdf
    \/ MarginalCdfJacobian
    \/ MarginalPdf
    \/ MarginalPdfJacobian
    \/ MarginalPdfFromCharacteristic
    \/ MarginalCallOption
    \/ MarginalCharacteristicDf
    \/ NewTradingAlgorithm
    \/ SetLogger
    \/ CreateGenerator
    \/ Order
    \/ OrderValue
    \/ Initialized
    \/ SetSlippage
    \/ SetCommission

Spec == Init /\ [][Next]_vars

\* The interpreter keeps running a call that can take a step: the loop of
\* arrivals is iterated while its condition holds and left when it fails.
LiveSpec ==
    Spec /\ WF_vars(ArrivalsIterate) /\ WF_vars(ArrivalsReturn)

(***************************************************************************)
(* Properties.                                                             *)
(***************************************************************************)
IsSample(kind) == last.op = "sample" /\ obj.kind = kind

\* C1: characteristic(t, 0) is exactly 1 for every PoissonProcess (any rate
\* within bounds) and every WeinerProcess (any sigma >= 0), for every t >= 0.
C1_Normalization ==
    (last.op = "characteristic" /\ last.args.u = 0 /\ last.args.t >= 0)
        => last.ret.v = COne

C1_Witness ==
    /\ last.op = "characteristic"
    /\ obj.kind = "PoissonProcess"
    /\ obj.rate.value > 0
    /\ last.args.t > 0
    /\ last.args.u = 0
    /\ last.ret.v = COne

\* The number of arrival times, the cumulative sums of the drawn gaps that do
\* not exceed t, that are <= i * dt, where dt = t / steps.
ArrivalsUpTo(gaps, t, steps, i) ==
    Cardinality({j \in 1..Len(gaps) :
                    /\ SumTo(gaps, j) <= t
                    /\ SumTo(gaps, j) * steps <= i * t})

\* C2: every path of PoissonProcess.sample is the right-continuous step path
\* of the counting process: its value at grid index i is the number of
\* arrival times <= i * dt, the arrival times being the cumulative sums of
\* the drawn gaps that do not exceed t.
C2_CountingPath ==
    (IsSample("PoissonProcess") /\ ~IsRaise(last.ret)) =>
        \A p \in 1..last.args.n : \A i \in 0..last.args.steps :
            last.ret.data[i + 1][p] =
                RInt(ArrivalsUpTo(last.args.gaps[p], last.args.t,
                                  last.args.steps, i))

\* sigma * sqrt(dt) * s = v, stated without the root: both sides have the
\* same sign and sigma^2 * dt * s^2 = v^2.
ScaledBy(sigma, dt, s, v) ==
    /\ RMul(RMul(RInt(sigma * sigma), dt), RMul(s, s)) = RMul(v, v)
    /\ (RLess(RZero, v) => RLess(RZero, s))
    /\ (RLess(v, RZero) => RLess(s, RZero))

\* C3: the path returned by WeinerProcess.sample_from_draws (and by sample)
\* has the draws' shape and horizon, and its row k is sigma * sqrt(dt) times
\* the sum of the first k draws of the column; row 0 is 0.
C3_ScaledCumulativeSum ==
    (obj.kind = "WeinerProcess" /\ last.op \in {"sample", "sample_from_draws"}
        /\ ~IsRaise(last.ret)) =>
        LET draws == IF last.op = "sample"
                     THEN Paths_init(last.args.t, last.args.drawn)
                     ELSE last.args.draws
            path == last.ret
        IN  /\ path.kind = "Paths"
            /\ path.t = draws.t
            /\ Len(path.data) = Len(draws.data)
            /\ \A k \in 0..(Len(draws.data) - 1) :
                   /\ Len(path.data[k + 1]) = Len(draws.data[1])
                   /\ \A c \in 1..Len(draws.data[1]) :
                          ScaledBy(obj.sigma, Rat(draws.t, Len(draws.data) - 1),
                                   ColumnSum(draws.data, k, c),
                                   path.data[k + 1][c])

\* C4: no process object holding a parameter value outside its bounds (a
\* negative rate, a negative sigma) is ever obtained.
C4_ParametersWithinBounds ==
    /\ obj.kind = "PoissonProcess" => obj.rate.value >= 0
    /\ obj.kind \in {"SkellamProcess", "DoubleIndependentPoisson"} =>
           (obj.rate_left >= 0 /\ obj.rate_right >= 0)
    /\ obj.kind = "WeinerProcess" => obj.sigma >= 0

\* C5: every implemented sample(n, t, steps) with steps >= 1 returns a Paths
\* whose t is the horizon asked for, whose buffer has steps + 1 rows and n
\* columns, and whose dt is t / steps.
C5_SampleIsPathsOnGrid ==
    (last.op = "sample" /\ obj.kind \in {"PoissonProcess", "WeinerProcess"}
        /\ last.args.steps >= 1 /\ ~IsRaise(last.ret)) =>
        /\ last.ret.kind = "Paths"
        /\ last.ret.t = last.args.t
        /\ Len(last.ret.data) = last.args.steps + 1
        /\ \A r \in 1..Len(last.ret.data) : Len(last.ret.data[r]) = last.args.n
        /\ Paths_dt(last.ret) = Float(Rat(last.args.t, last.args.steps))

\* C6: SkellamProcess.sample and DoubleIndependentPoisson.sample fail with
\* NotImplementedError for every (n, t, steps) and every process state; they
\* never return a value.
C6_SampleNotImplemented ==
    (IsSample("SkellamProcess") \/ IsSample("DoubleIndependentPoisson")) =>
        last.ret = Raise("NotImplementedError")

C6_Witness ==
    /\ IsSample("SkellamProcess")
    /\ last.args.n = MaxN
    /\ last.args.steps >= 1
    /\ last.ret = Raise("NotImplementedError")

\* C7: for every DoubleIndependentPoisson(l1, l2), sum_process() returns a
\* PoissonProcess whose rate is l1 + l2.
C7_SumProcessRate ==
    last.op = "sum_process" =>
        /\ last.ret.kind = "PoissonProcess"
        /\ last.ret.rate.value = obj.rate_left + obj.rate_right

\* C8: for every DoubleIndependentPoisson(l1, l2), every t and every pair of
\* integers (n1, n2), negative ones included, pdf(t, (n1, n2)) equals
\* PoissonProcess(l1).pdf(t, n1) * PoissonProcess(l2).pdf(t, n2).
C8_PdfFactorizes ==
    (obj.kind = "DoubleIndependentPoisson" /\ last.op = "pdf") =>
        LET left == PoissonProcess_init(obj.rate_left)
            right == PoissonProcess_init(obj.rate_right)
        IN  /\ ~IsRaise(left)
            /\ ~IsRaise(right)
            /\ FEq(last.ret.v,
                   FMul(Poisson_pdf(left, last.args.t, last.args.n[1]),
                        Poisson_pdf(right, last.args.t, last.args.n[2])))

\* C9: for a PoissonProcess with a valid rate, a horizon t and every integer
\* n >= 0, cdf(t, n) - cdf(t, n - 1), the default pdf of Marginal1D, equals
\* the closed-form pdf(t, n).
C9_PdfIsCdfDifference ==
    (last.op = "Marginal1D.pdf" /\ last.args.n >= 0) =>
        FEq(last.ret.v, Poisson_pdf(obj, last.args.t, last.args.n))

C9_Witness ==
    /\ last.op = "Marginal1D.pdf"
    /\ last.args.n >= 1
    /\ last.args.t * obj.rate.value > 0
    /\ last.ret.v # FZero
    /\ FEq(last.ret.v, Poisson_pdf(obj, last.args.t, last.args.n))

\* C10: the buffer Paths.integrate() returns is the cumulative trapezoidal
\* integral of the original along the time axis: row 0 is all zeros and row
\* k >= 1 is row k - 1 plus dt * (data[k - 1] + data[k]) / 2, in every column.
C10_CumulativeTrapezoid ==
    (last.op = "integrate" /\ ~IsRaise(last.ret)) =>
        LET out == last.ret.data
            dt == Rat(obj.t, Len(obj.data) - 1)
        IN  /\ last.ret.kind = "Paths"
            /\ Len(out) = Len(obj.data)
            /\ \A c \in 1..Paths_samples(obj) :
                   /\ out[1][c] = RZero
                   /\ \A k \in 1..Paths_steps(obj) :
                          out[k + 1][c] =
                              RAdd(out[k][c],
                                   RMul(dt, RMul(Rat(1, 2),
                                        RAdd(obj.data[k][c], obj.data[k + 1][c]))))

C10_Witness ==
    /\ last.op = "integrate"
    /\ ~IsRaise(last.ret)
    /\ obj.t = MaxT
    /\ Paths_steps(obj) = MaxSteps
    /\ Paths_samples(obj) = MaxN
    /\ \E c \in 1..MaxN : last.ret.data[MaxSteps + 1][c] # RZero
    /\ last.ret.data[MaxSteps + 1][1] # last.ret.data[MaxSteps + 1][MaxN]

\* The buffer of a Paths has at least one row and reading dt gives a positive
\* number.
PathsWellFormed(p) ==
    /\ Len(p.data) >= 1
    /\ ~IsRaise(Paths_dt(p))
    /\ RLess(RZero, Paths_dt(p).v)

\* C11: every Paths that can be constructed, directly, by a sampling routine
\* or by integrate, has a buffer of at least one row and a strictly positive
\* dt = t / steps: reading dt never fails and never gives a value <= 0.
C11_PathsDtPositive ==
    /\ obj.kind = "Paths" => PathsWellFormed(obj)
    /\ (last.op \in {"sample", "sample_from_draws", "integrate"}
           /\ last.ret.kind = "Paths") => PathsWellFormed(last.ret)

\* C12: on a marginal that overrides neither cdf nor cdf_jacobian, cdf(n),
\* cdf_jacobian(n), the default pdf(n) and pdf_jacobian(n) all fail with
\* NotImplementedError for every n; none of them returns a value.
C12_DefaultsNotImplemented ==
    (obj.kind = "Marginal1D"
        /\ last.op \in {"cdf", "cdf_jacobian", "pdf", "pdf_jacobian"}) =>
        last.ret = Raise("NotImplementedError")

C12_Witness ==
    /\ obj.kind = "Marginal1D"
    /\ last.op = "pdf"
    /\ last.args.n = 0
    /\ last.ret = Raise("NotImplementedError")

IsTransformCall(ops) == obj.kind = "Marginal1D" /\ last.op \in ops

\* C13: in pdf_from_characteristic, characteristic_df and call_option the
\* maximum frequency handed to the transform is the caller's max_frequency
\* when one is passed and the marginal's max_frequency() otherwise.
C13_MaxFrequencyHanded ==
    (IsTransformCall({"pdf_from_characteristic", "characteristic_df",
                      "call_option"}) /\ ~IsRaise(last.ret)) =>
        last.ret.transform.max_frequency =
            IF last.args.max_frequency \notin {None, NotPassed}
            THEN last.args.max_frequency
            ELSE Marginal1D_max_frequency(obj)

\* The request asks for Simpson's rule on an odd number of subintervals or
\* for a maximum frequency that is not positive.
InvalidConfiguration(args) ==
    \/ /\ args.simpson_rule
       /\ args.n_or_x.kind = "int"
       /\ Subintervals(args.n_or_x.v) % 2 = 1
    \/ /\ args.max_frequency \notin {None, NotPassed}
       /\ ~RLess(RZero, args.max_frequency.v)

\* C14: pdf_from_characteristic and call_option fail with a configuration
\* error when asked for Simpson's rule on an odd number of subintervals or
\* for a non-positive max_frequency, and the characteristic function has not
\* been evaluated at any frequency when they fail.
C14_ConfigurationErrorFirst ==
    (IsTransformCall({"pdf_from_characteristic", "call_option"})
        /\ InvalidConfiguration(last.args)) =>
        /\ last.ret = Raise("ConfigurationError")
        /\ evaluated = <<>>

\* C16: in pdf_from_characteristic an integer n_or_x is handed on as the
\* sample count and delta_x is forwarded as given; with an array of
\* coordinates the sample count is left unset and delta_x, if not given, is
\* (max(x) - min(x)) / (len(x) - 1); with an array and a delta_x the delta_x
\* given is used and the array has no influence on the result.
C16_OneInputDeterminesResolution ==
    IsTransformCall({"pdf_from_characteristic"}) =>
        LET a == last.args
            x == a.n_or_x.x
        IN  \/ last.ret = Raise("ConfigurationError")
            \/ /\ last.ret.kind = "TransformResult"
               /\ a.n_or_x.kind = "int" =>
                      /\ last.ret.transform.n = a.n_or_x
                      /\ last.ret.delta_x = a.delta_x
               /\ a.n_or_x.kind = "array" =>
                      /\ last.ret.transform.n = None
                      /\ last.ret.delta_x =
                             IF a.delta_x # None THEN a.delta_x
                             ELSE Float(RMul(RSub(np_max(x).v, np_min(x).v),
                                             Rat(1, Len(x) - 1)))
                      /\ a.delta_x # None =>
                             \A y \in Arrays :
                                 Marginal1D_pdf_from_characteristic(obj, y,
                                     a.max_frequency, a.delta_x,
                                     a.simpson_rule).ret = last.ret

\* C15: in every state of a TradingAlgorithm that holds a last price,
\* order_value(sid, value) at a last price of (near) zero places no order,
\* returns no order id, does not raise and logs a diagnostic; at any other
\* price it places exactly one order, for value / last_price shares with the
\* limit and stop prices given.
C15_OrderValueGuard ==
    [][(last.op = "none" /\ last'.op = "order_value"
            /\ obj.trading_client # None) =>
        LET a == last'.args
            last_price == obj.trading_client.current_data[a.sid]
        IN  IF np_allclose_zero(last_price)
            THEN /\ last'.ret = None
                 /\ obj'.blotter = obj.blotter
                 /\ obj.logger # None
                 /\ Len(obj'.logger.messages) = Len(obj.logger.messages) + 1
            ELSE /\ last'.ret.kind = "order_id"
                 /\ obj'.blotter.orders =
                        Append(obj.blotter.orders,
                               [sid |-> a.sid,
                                amount |-> RMul(RInt(a.value),
                                                Rat(last_price[2], last_price[1])),
                                limit |-> a.limit_price,
                                stop |-> a.stop_price])]_vars

\* C17: integrate() leaves its receiver as it was, with the same t and the
\* same buffer, whatever calls came before, and the Paths it returns is a new
\* value with the receiver's t and shape (steps + 1 rows, samples columns),
\* hence the same steps and dt.
C17_IntegrateLeavesReceiver ==
    [][last'.op = "integrate" =>
        /\ obj' = obj
        /\ ~IsRaise(last'.ret) =>
               /\ last'.ret.kind = "Paths"
               /\ last'.ret.t = obj.t
               /\ Len(last'.ret.data) = Paths_steps(obj) + 1
               /\ \A r \in 1..Len(last'.ret.data) :
                      Len(last'.ret.data[r]) = Paths_samples(obj)
               /\ Paths_steps(last'.ret) = Paths_steps(obj)
               /\ Paths_dt(last'.ret) = Paths_dt(obj)]_vars

C17_Witness ==
    /\ last.op = "integrate"
    /\ obj.kind = "Paths"
    /\ ~IsRaise(last.ret)
    /\ obj.t > 0
    /\ Paths_steps(obj) >= 1
    /\ last.ret.data # obj.data
    /\ last.ret.t = obj.t

\* The value the evaluation `op` of the process `self` gives for the
\* arguments (and, for a sampling routine, the draws) `a`.
Evaluation(self, op, a) ==
    CASE self.kind = "PoissonProcess" ->
           (CASE op = "pdf" -> Float(Poisson_pdf(self, a.t, a.n))
              [] op = "cdf" -> Float(Poisson_cdf(self, a.t, a.n))
              [] op = "Marginal1D.pdf" -> Float(Marginal1D_pdf(self, a.t, a.n))
              [] op = "cdf_jacobian" -> Poisson_cdf_jacobian(self, a.t, a.n)
              [] op = "characteristic" ->
                    [kind |-> "complex", v |-> Poisson_characteristic(self, a.t, a.u)]
              [] op = "characteristic_exponent" ->
                    [kind |-> "complex",
                     v |-> CNorm(Poisson_characteristic_exponent(self, a.u))]
              [] op = "parameters" -> Poisson_parameters(self)
              [] op = "arrivals" -> Poisson_arrivals(self, a.t, a.gaps)
              [] op = "jumps" -> [kind |-> "array", x |-> Poisson_jumps(self, a.n)]
              [] op = "sample" -> Poisson_sample(self, a.n, a.t, a.steps, a.gaps))
      [] self.kind = "SkellamProcess" ->
            Skellam_sample(self, a.n, a.t, a.steps)
      [] self.kind = "DoubleIndependentPoisson" ->
           (CASE op = "pdf" -> Float(DoubleIndependentPoisson_pdf(self, a.t, a.n))
              [] op = "marginals" -> Tuple(DoubleIndependentPoisson_marginals(self))
              [] op = "sum_process" -> DoubleIndependentPoisson_sum_process(self)
              [] op = "difference_process" ->
                    DoubleIndependentPoisson_difference_process(self)
              [] op = "sample" ->
                    DoubleIndependentPoisson_sample(self, a.n, a.t, a.steps))

WithinHorizon(arrivals, t) ==
    /\ \A i \in 1..Len(arrivals) : arrivals[i] <= t
    /\ \A i \in 1..(Len(arrivals) - 1) : arrivals[i] <= arrivals[i + 1]

\* C19: arrivals(t) with rate > 0 and t >= 0 terminates when the gaps drawn
\* are positive and their running sum comes to exceed t; generation stops at
\* the first cumulative time greater than t (no time is recorded after it);
\* the times returned are in non-decreasing order and none is greater than t.
C19_ArrivalsTerminate ==
    /\ [](frame # NoFrame => WithinHorizon(frame.arrivals, frame.t))
    /\ []((last.op = "arrivals" /\ ~IsRaise(last.ret)) =>
             /\ WithinHorizon(last.ret.v, last.args.t)
             /\ SumTo(last.args.gaps, Len(last.args.gaps)) > last.args.t
             /\ \A j \in 0..(Len(last.args.gaps) - 1) :
                    SumTo(last.args.gaps, j) <= last.args.t)
    /\ (frame # NoFrame) ~> (frame = NoFrame /\ last.op = "arrivals")

C19_Witness ==
    /\ obj.kind = "PoissonProcess"
    /\ obj.rate.value > 0
    /\ last.op = "arrivals"
    /\ last.args.t = MaxT
    /\ Len(last.args.gaps) = MaxT + 1
    /\ Len(last.ret.v) = MaxT + 1
    /\ last.ret.v[MaxT + 1] = MaxT

\* C20: every column of the buffer PoissonProcess.sample produces is 0 in
\* row 0, integer-valued and non-decreasing down the rows, and the fill loop
\* never writes past the last row: no IndexError comes out of sample.
C20_SampleColumnsMonotone ==
    IsSample("PoissonProcess") =>
        /\ last.ret # Raise("IndexError")
        /\ ~IsRaise(last.ret) =>
               /\ Len(last.ret.data) = last.args.steps + 1
               /\ \A p \in 1..last.args.n :
                      /\ last.ret.data[1][p] = RZero
                      /\ \A i \in 1..Len(last.ret.data) :
                             last.ret.data[i][p][2] = 1
                      /\ \A i \in 1..(Len(last.ret.data) - 1) :
                             ~RLess(last.ret.data[i + 1][p], last.ret.data[i][p])

C20_Witness ==
    /\ IsSample("PoissonProcess")
    /\ ~IsRaise(last.ret)
    /\ last.args.t = MaxT
    /\ last.args.steps = MaxSteps
    /\ last.args.n = MaxN
    /\ RLess(last.ret.data[2][1], last.ret.data[MaxSteps + 1][1])
    /\ last.ret.data[MaxSteps + 1][1] # last.ret.data[MaxSteps + 1][MaxN]

\* C21 (as stated): set_slippage and set_commission reject a model of
\* unsupported type with the Unsupported...Model error, and once initialized
\* is True every call raises the Override...PostInit error; in both cases
\* the slippage and commission models are left as they were.
C21_EveryCallPostInitOverrides ==
    [][(last.op = "none" /\ last'.op \in {"set_slippage", "set_commission"}) =>
        LET model == last'.args.model
            supported == IF last'.op = "set_slippage"
                         THEN isinstance(model, {"SlippageModel"})
                         ELSE isinstance(model,
                                         {"PerShare", "PerTrade", "PerDollar"})
            Unsupported == IF last'.op = "set_slippage"
                           THEN Raise("UnsupportedSlippageModel")
                           ELSE Raise("UnsupportedCommissionModel")
            PostInit == IF last'.op = "set_slippage"
                        THEN Raise("OverrideSlippagePostInit")
                        ELSE Raise("OverrideCommissionPostInit")
        IN  /\ (~supported /\ ~obj.initialized) => last'.ret = Unsupported
            /\ obj.initialized => last'.ret = PostInit
            /\ IsRaise(last'.ret) => obj' = obj]_vars

\* C21 (amended): set_slippage and set_commission reject a model of
\* unsupported type with the Unsupported...Model error, whether initialized
\* is True or not, and once initialized is True every call with a model of
\* supported type raises the Override...PostInit error; in both error cases
\* the algorithm is left as it was, so once initialized is True no call of
\* a setter changes the slippage or the commission model.
C21_SettersGuard ==
    [][(last.op = "none" /\ last'.op \in {"set_slippage", "set_commission"}) =>
        LET model == last'.args.model
            supported == IF last'.op = "set_slippage"
                         THEN isinstance(model, {"SlippageModel"})
                         ELSE isinstance(model,
                                         {"PerShare", "PerTrade", "PerDollar"})
            Unsupported == IF last'.op = "set_slippage"
                           THEN Raise("UnsupportedSlippageModel")
                           ELSE Raise("UnsupportedCommissionModel")
            PostInit == IF last'.op = "set_slippage"
                        THEN Raise("OverrideSlippagePostInit")
                        ELSE Raise("OverrideCommissionPostInit")
        IN  /\ ~supported => last'.ret = Unsupported
            /\ (supported /\ obj.initialized) => last'.ret = PostInit
            /\ IsRaise(last'.ret) => obj' = obj
            /\ obj.initialized => /\ IsRaise(last'.ret)
                                  /\ obj'.slippage = obj.slippage
                                  /\ obj'.commission = obj.commission]_vars

\* A slippage model was set before the algorithm was initialized, and a
\* commission model of supported type is refused after.
C21_Witness ==
    /\ obj.kind = "TradingAlgorithm"
    /\ obj.initialized
    /\ obj.slippage = "FixedSlippage"
    /\ obj.commission = "PerShare"
    /\ last.op = "set_commission"
    /\ last.args.model = "PerTrade"
    /\ last.ret = Raise("OverrideCommissionPostInit")

=============================================================================
